---- MODULE Spec2Model ----
(***************************************************************************)
(* A model of the Surgical Complication AI assistant:                      *)
(*   - src/src/data_loader.py      load_json_knowledgebase,                 *)
(*                                 prepare_documents                        *)
(*   - src/data/vectorstore_manager.py  build_faiss_retriever               *)
(*   - src/src/ai_engine.py        generate_response                        *)
(*   - src/streamlit_app.py        initialize_resources (cached),           *)
(*                                 search_knowledge_base, the protocol      *)
(*                                 formatting block, the script body        *)
(* Python strings are sequences of one-character strings, so that          *)
(* lower(), `in`, strip(), concatenation and the regular expression are    *)
(* computed character by character.                                        *)
(***************************************************************************)
EXTENDS Integers, Sequences, FiniteSets, TLC

VARIABLES
    kb_data,            \* the KnowledgeBase handed to prepare_documents / search_knowledge_base
    documents,          \* the list prepare_documents returned
    query,              \* the query handed to search_knowledge_base
    found,              \* what search_knowledge_base did: its result and the names it read
    protocol_text,      \* the protocol field handed to the formatting block
    formatted_protocol, \* the string the formatting block built
    pc,                 \* "ready" before the call of a pure function, "done" after it
    api_key,            \* API_KEY of the process (the empty string when unset)
    kb_file,            \* what KB_PATH resolves to: "missing", "malformed" or "valid"
    cache,              \* the st.cache_resource entry of initialize_resources
    session_kb,         \* st.session_state.kb_data of each browser session
    executed,           \* how often each initialization step has been executed
    runs,               \* number of script runs so far
    last                \* what the last script run did and showed

vars == << kb_data, documents, query, found, protocol_text, formatted_protocol, pc,
           api_key, kb_file, cache, session_kb, executed, runs, last >>

pureVars == << kb_data, documents, query, found, protocol_text, formatted_protocol, pc >>
appVars == << api_key, kb_file, cache, session_kb, executed, runs, last >>

----------------------------------------------------------------------------
(* Bounds of the model. *)

MaxSurgeries == 2
MaxComps == 2
MaxTokens == 4
MaxRuns == 4

----------------------------------------------------------------------------
(* Python string helpers. *)

SeqsUpTo(S, n) == UNION { [1..k -> S] : k \in 0..n }

Range(s) == { s[i] : i \in DOMAIN s }

\* str.lower(), one character
LowerChar(c) ==
    CASE c = "A" -> "a"
      [] c = "B" -> "b"
      [] c = "C" -> "c"
      [] c = "D" -> "d"
      [] OTHER -> c

\* str.lower()
Lower(s) == [i \in 1..Len(s) |-> LowerChar(s[i])]

\* needle in hay
Contains(hay, needle) ==
    \E i \in 0..(Len(hay) - Len(needle)) : SubSeq(hay, i + 1, i + Len(needle)) = needle

----------------------------------------------------------------------------
(* JSON values of the clinical fields: a string or null. *)

JStr(s) == [kind |-> "str", s |-> s]
JNull == [kind |-> "null", s |-> << >>]

\* the default of complication.get(field, "N/A")
NA == << "N", "/", "A" >>

\* what an f-string puts for a value: str(None) is "None"
PyFormat(v) == IF v.kind = "null" THEN << "N", "o", "n", "e" >> ELSE v.s

\* dict.get(key, default)
Get(d, key, default) == IF key \in DOMAIN d THEN d[key] ELSE default

ClinicalFields == { "etiology", "risk_factors", "diagnostic_criteria", "protocol" }

----------------------------------------------------------------------------
(* data_loader.prepare_documents *)

\* complication.get(field, "N/A") turned around: the default is the empty string
FieldOrEmpty(complication, field) == Get(complication, field, JStr(<< >>))

\* complication.get(field, "N/A")
FieldOrDefault(complication, field) == Get(complication, field, JStr(NA))

\* The f-string of the document's content: the template and what it puts in the
\* place of each of its six substitutions.
Content(surgery_name, comp_name, etiology, risk_factors, diagnostic_criteria, protocol) ==
    [ template            |-> "Surgical Complication: {comp_name} during/after {surgery_name}. Clinical Context (Etiology): {etiology}. Key Risk Factors: {risk_factors}. Diagnostic Criteria (Signs/Labs/Imaging): {diagnostic_criteria}. Management Protocol: {protocol}",
      comp_name           |-> comp_name,
      surgery_name        |-> surgery_name,
      etiology            |-> PyFormat(etiology),
      risk_factors        |-> PyFormat(risk_factors),
      diagnostic_criteria |-> PyFormat(diagnostic_criteria),
      protocol            |-> PyFormat(protocol) ]

\* f"{surgery_name} - {comp_name}"
SourceLabel(surgery_name, comp_name) == surgery_name \o << " ", "-", " " >> \o comp_name

\* the body of the inner loop: one Document for one complication
MakeDocument(surgery, complication) ==
    LET surgery_name        == surgery["surgery_name"]
        category            == Get(surgery, "category", JNull)
        comp_name           == complication["name"]
        etiology            == FieldOrDefault(complication, "etiology")
        risk_factors        == FieldOrDefault(complication, "risk_factors")
        diagnostic_criteria == FieldOrDefault(complication, "diagnostic_criteria")
        protocol            == FieldOrDefault(complication, "protocol")
    IN  [ page_content |-> Content(surgery_name, comp_name, etiology, risk_factors,
                                   diagnostic_criteria, protocol),
          metadata |-> [ surgery             |-> surgery_name,
                         complication        |-> comp_name,
                         category            |-> category,
                         etiology            |-> etiology,
                         risk_factors        |-> risk_factors,
                         diagnostic_criteria |-> diagnostic_criteria,
                         protocol            |-> protocol,
                         source              |-> SourceLabel(surgery_name, comp_name) ] ]

\* the two nested loops, from surgery number i on
RECURSIVE DocumentsFrom(_, _)
DocumentsFrom(surgeries, i) ==
    IF i > Len(surgeries) THEN << >>
    ELSE LET surgery == surgeries[i]
             comps   == surgery["complications"]
         IN  [j \in 1..Len(comps) |-> MakeDocument(surgery, comps[j])]
                 \o DocumentsFrom(surgeries, i + 1)

prepare_documents(kb) == DocumentsFrom(kb["surgeries"], 1)

----------------------------------------------------------------------------
(* The KnowledgeBases handed to prepare_documents.  Surgery names are unique  *)
(* within a KnowledgeBase and complication names within a Surgery, as the    *)
(* data model requires.                                                      *)

Injective(s, key) == \A i, j \in DOMAIN s : s[i][key] = s[j][key] => i = j

PrepSurgeryNames == { << "A" >>, << "B" >>, << "A", " ", "-", " ", "B" >> }
PrepCompNames == { << "C" >>, << "B", " ", "-", " ", "C" >> }

\* complications with every clinical field present
FullComplication(name) ==
    [ name |-> name, etiology |-> JStr(<< "e" >>), risk_factors |-> JStr(<< "r" >>),
      diagnostic_criteria |-> JStr(<< "d" >>), protocol |-> JStr(<< "p" >>),
      references |-> << >> ]

PrepCompLists ==
    { cs \in SeqsUpTo({ FullComplication(n) : n \in PrepCompNames }, MaxComps) :
        Injective(cs, "name") }

PrepSurgeries ==
    { [ surgery_name |-> n, category |-> JStr(<< "G" >>), complications |-> cs ] :
        n \in PrepSurgeryNames, cs \in PrepCompLists }

NamedKBs ==
    { [ surgeries |-> ss ] :
        ss \in { s \in SeqsUpTo(PrepSurgeries, MaxSurgeries) : Injective(s, "surgery_name") } }

\* one complication whose clinical fields are each absent, null, empty or a text
FieldValues == { JNull, JStr(<< >>), JStr(<< "x" >>) }

PartialComplications ==
    UNION { { [ k \in { "name" } \cup present |->
                  IF k = "name" THEN << "C" >> ELSE val[k] ] :
              val \in [present -> FieldValues] } :
            present \in SUBSET ClinicalFields }

PartialKBs ==
    { [ surgeries |-> << [ surgery_name |-> << "A" >>, complications |-> << c >> ] >> ] :
        c \in PartialComplications }

PrepareKBs == NamedKBs \cup PartialKBs

----------------------------------------------------------------------------
(* The idle values of the variables a specification does not use. *)

NoResult == [ kind |-> "not called", visited |-> << >> ]

PureIdle ==
    /\ kb_data = [ surgeries |-> << >> ]
    /\ documents = << >>
    /\ query = << >>
    /\ found = NoResult
    /\ protocol_text = << >>
    /\ formatted_protocol = << >>
    /\ pc = "ready"

NoCache == [ filled |-> FALSE ]

AppIdle ==
    /\ api_key = << >>
    /\ kb_file = "missing"
    /\ cache = NoCache
    /\ session_kb = << >>
    /\ executed = [ load |-> 0, prepare |-> 0, build |-> 0, body |-> 0 ]
    /\ runs = 0
    /\ last = [ kind |-> "none" ]

----------------------------------------------------------------------------
(* prepare_documents applied to a KnowledgeBase *)

InitPrepare ==
    /\ kb_data \in PrepareKBs
    /\ documents = << >>
    /\ query = << >>
    /\ found = NoResult
    /\ protocol_text = << >>
    /\ formatted_protocol = << >>
    /\ pc = "ready"
    /\ AppIdle

PrepareDocuments ==
    /\ pc = "ready"
    /\ documents' = prepare_documents(kb_data)
    /\ pc' = "done"
    /\ UNCHANGED << kb_data, query, found, protocol_text, formatted_protocol >>
    /\ UNCHANGED appVars

NextPrepare == PrepareDocuments

SpecPrepare == InitPrepare /\ [][NextPrepare]_vars

RECURSIVE TotalComplications(_, _)
TotalComplications(surgeries, i) ==
    IF i > Len(surgeries) THEN 0
    ELSE Len(surgeries[i]["complications"]) + TotalComplications(surgeries, i + 1)

\* the place in the returned list of complication j of surgery i
DocIndex(surgeries, i, j) ==
    TotalComplications(SubSeq(surgeries, 1, i - 1), 1) + j

\* C1: prepare_documents returns as many documents as there are complications
\* over all surgeries, and no two of them carry the same `source`.
C1_CountAndUniqueSource ==
    pc = "done" =>
        /\ Len(documents) = TotalComplications(kb_data["surgeries"], 1)
        /\ \A m, n \in DOMAIN documents :
               documents[m].metadata.source = documents[n].metadata.source => m = n

\* C7: in the content of the document of a complication, the place of every
\* clinical field the complication lacks holds the literal "N/A" (and so neither
\* the empty string nor "None").
C7_MissingFieldIsNA ==
    pc = "done" =>
        \A i \in DOMAIN kb_data["surgeries"] :
            \A j \in DOMAIN kb_data["surgeries"][i]["complications"] :
                LET comp == kb_data["surgeries"][i]["complications"][j]
                    doc  == documents[DocIndex(kb_data["surgeries"], i, j)]
                IN  \A f \in ClinicalFields :
                        f \notin DOMAIN comp =>
                            /\ doc.page_content[f] = NA
                            /\ doc.page_content[f] # << >>
                            /\ doc.page_content[f] # << "N", "o", "n", "e" >>

\* a complication that lacks two fields, has a null one and a text one, prepared
C7_Witness ==
    /\ pc = "done"
    /\ Len(documents) = 1
    /\ LET comp == kb_data["surgeries"][1]["complications"][1]
       IN  /\ "etiology" \notin DOMAIN comp
           /\ "protocol" \notin DOMAIN comp
           /\ "risk_factors" \in DOMAIN comp /\ comp["risk_factors"] = JNull
           /\ "diagnostic_criteria" \in DOMAIN comp
           /\ comp["diagnostic_criteria"] = JStr(<< "x" >>)
           /\ documents[1].page_content["etiology"] = NA
           /\ documents[1].page_content["diagnostic_criteria"] = << "x" >>

----------------------------------------------------------------------------
(* streamlit_app.search_knowledge_base *)

\* What the function did: the triple it returned (kind "match"), the none-triple
\* (kind "none") or the exception it raised, and the names it read on the way,
\* << i, 0 >> for the name of surgery i and << i, j >> for that of its
\* complication j.
Match(surgery, comp_name, visited) ==
    [ kind |-> "match", surgery_name |-> surgery["surgery_name"], comp_name |-> comp_name,
      surgery |-> surgery, visited |-> visited ]
NoneTriple(visited) == [ kind |-> "none", visited |-> visited ]
Raised(exception, visited) == [ kind |-> exception, visited |-> visited ]

\* search_term in name.lower()
Matches(search_term, name) == Contains(Lower(name), search_term)

\* the inner loop over the complications of surgery i, from complication j on;
\* "next" when none matches
RECURSIVE ScanComplications(_, _, _, _, _)
ScanComplications(surgery, i, j, search_term, visited) ==
    IF j > Len(surgery["complications"]) THEN [ kind |-> "next", visited |-> visited ]
    ELSE LET comp_name == surgery["complications"][j]["name"]
             seen      == Append(visited, << i, j >>)
         IN  IF Matches(search_term, comp_name)
             THEN Match(surgery, comp_name, seen)
             ELSE ScanComplications(surgery, i, j + 1, search_term, seen)

\* the outer loop, from surgery i on
RECURSIVE ScanSurgeries(_, _, _, _)
ScanSurgeries(surgeries, i, search_term, visited) ==
    IF i > Len(surgeries) THEN NoneTriple(visited)
    ELSE LET surgery == surgeries[i]
             seen    == Append(visited, << i, 0 >>)
         IN  IF Matches(search_term, surgery["surgery_name"])
             THEN IF Len(surgery["complications"]) = 0
                  THEN Raised("IndexError", seen)      \* surgery["complications"][0]
                  ELSE Match(surgery, surgery["complications"][1]["name"], seen)
             ELSE LET inner == ScanComplications(surgery, i, 1, search_term, seen)
                  IN  IF inner.kind = "next"
                      THEN ScanSurgeries(surgeries, i + 1, search_term, inner.visited)
                      ELSE inner

\* the function without its first two lines: the empty query is searched for
SearchWithoutEmptyCheck(q, kb) == ScanSurgeries(kb["surgeries"], 1, Lower(q), << >>)

\* the function with two passes: every surgery name first, complication names
\* only when no surgery name contains the query
RECURSIVE ScanNames(_, _, _, _)
ScanNames(surgeries, i, search_term, visited) ==
    IF i > Len(surgeries) THEN [ kind |-> "next", visited |-> visited ]
    ELSE LET surgery == surgeries[i]
             seen    == Append(visited, << i, 0 >>)
         IN  IF Matches(search_term, surgery["surgery_name"])
             THEN IF Len(surgery["complications"]) = 0
                  THEN Raised("IndexError", seen)
                  ELSE Match(surgery, surgery["complications"][1]["name"], seen)
             ELSE ScanNames(surgeries, i + 1, search_term, seen)

RECURSIVE ScanAllComplications(_, _, _, _)
ScanAllComplications(surgeries, i, search_term, visited) ==
    IF i > Len(surgeries) THEN NoneTriple(visited)
    ELSE LET inner == ScanComplications(surgeries[i], i, 1, search_term, visited)
         IN  IF inner.kind = "next"
             THEN ScanAllComplications(surgeries, i + 1, search_term, inner.visited)
             ELSE inner

SearchInTwoPasses(q, kb) ==
    IF q = << >> THEN NoneTriple(<< >>)
    ELSE LET names == ScanNames(kb["surgeries"], 1, Lower(q), << >>)
         IN  IF names.kind = "next"
             THEN ScanAllComplications(kb["surgeries"], 1, Lower(q), names.visited)
             ELSE names

search_knowledge_base(q, kb) ==
    IF q = << >> THEN NoneTriple(<< >>)
    ELSE ScanSurgeries(kb["surgeries"], 1, Lower(q), << >>)

----------------------------------------------------------------------------
(* search_knowledge_base applied to a KnowledgeBase and a query *)

SearchSurgeryNames == { << "A", "b" >>, << "C" >> }
SearchCompNames == { << "a", "B" >>, << "b", "c" >> }
Queries == { << >>, << "b" >>, << "A", "B" >>, << "c" >>, << "d" >> }

SearchSurgeries ==
    { [ surgery_name |-> n, category |-> JStr(<< "G" >>), complications |-> cs ] :
        n \in SearchSurgeryNames,
        cs \in SeqsUpTo({ FullComplication(c) : c \in SearchCompNames }, MaxComps) }

SearchKBs == { [ surgeries |-> ss ] : ss \in SeqsUpTo(SearchSurgeries, MaxSurgeries) }

InitSearch ==
    /\ kb_data \in SearchKBs
    /\ query \in Queries
    /\ documents = << >>
    /\ found = NoResult
    /\ protocol_text = << >>
    /\ formatted_protocol = << >>
    /\ pc = "ready"
    /\ AppIdle

Search ==
    /\ pc = "ready"
    /\ found' = search_knowledge_base(query, kb_data)
    /\ pc' = "done"
    /\ UNCHANGED << kb_data, documents, query, protocol_text, formatted_protocol >>
    /\ UNCHANGED appVars

NextSearch == Search

SpecSearch == InitSearch /\ [][NextSearch]_vars

\* the query is contained, case-insensitively, in the name of surgery i
NameHit(i) ==
    Contains(Lower(kb_data["surgeries"][i]["surgery_name"]), Lower(query))

\* ... in the name of complication j of surgery i
CompHit(i, j) ==
    Contains(Lower(kb_data["surgeries"][i]["complications"][j]["name"]), Lower(query))

AnyCompHit(i) == \E j \in DOMAIN kb_data["surgeries"][i]["complications"] : CompHit(i, j)

\* the function returned surgery i paired with its complication j
Returned(i, j) ==
    /\ found.kind = "match"
    /\ j \in DOMAIN kb_data["surgeries"][i]["complications"]
    /\ found.surgery = kb_data["surgeries"][i]
    /\ found.surgery_name = kb_data["surgeries"][i]["surgery_name"]
    /\ found.comp_name = kb_data["surgeries"][i]["complications"][j]["name"]

\* C3: when the scan stops at surgery i because its name contains the query
\* (nothing before it matched), the function returns that surgery paired with
\* its first complication, and the name of surgery i is the last name it read.
C3_SurgeryMatchReturnsFirstComplication ==
    (pc = "done" /\ query # << >>) =>
        \A i \in DOMAIN kb_data["surgeries"] :
            (NameHit(i) /\ \A k \in 1..(i - 1) : ~NameHit(k) /\ ~AnyCompHit(k)) =>
                /\ Returned(i, 1)
                /\ found.visited[Len(found.visited)] = << i, 0 >>

\* C4: a query contained in no surgery name and no complication name yields the
\* none-triple, and the empty query yields it with no name read.
C4_NoMatchAndEmptyQuery ==
    pc = "done" =>
        /\ (\A i \in DOMAIN kb_data["surgeries"] : ~NameHit(i) /\ ~AnyCompHit(i))
               => found.kind = "none"
        /\ query = << >> => (found.kind = "none" /\ found.visited = << >>)

\* a non-empty query that nothing contains, searched through two surgeries and
\* their complications
C4_Witness ==
    /\ pc = "done"
    /\ query = << "d" >>
    /\ Len(kb_data["surgeries"]) = 2
    /\ \A i \in DOMAIN kb_data["surgeries"] : Len(kb_data["surgeries"][i]["complications"]) = 2
    /\ found.kind = "none"
    /\ Len(found.visited) = 6

\* C10 as stated: with a surgery name containing the query the result is the
\* first such surgery with its first complication; otherwise it is the first
\* complication, in traversal order, whose name contains the query.  (A surgery
\* that has no complication has no first one: that case is left to C3 and is
\* not held against the statement here.)
C10_NamesBeforeComplications ==
    (pc = "done" /\ query # << >>) =>
        LET surgeries == kb_data["surgeries"]
        IN  IF \E i \in DOMAIN surgeries : NameHit(i)
            THEN \E i \in DOMAIN surgeries :
                    /\ NameHit(i)
                    /\ \A k \in 1..(i - 1) : ~NameHit(k)
                    /\ (Len(surgeries[i]["complications"]) = 0 \/ Returned(i, 1))
            ELSE \A i \in DOMAIN surgeries :
                    \A j \in DOMAIN surgeries[i]["complications"] :
                        ( /\ CompHit(i, j)
                          /\ \A k \in 1..(i - 1) : ~AnyCompHit(k)
                          /\ \A l \in 1..(j - 1) : ~CompHit(i, l) ) => Returned(i, j)

\* C10 amended: the result is taken from the first surgery whose name or one of
\* whose complication names contains the query: with its first complication if
\* its name contains the query (IndexError if it has none), otherwise with its
\* first complication whose name contains the query; the none-triple if there is
\* no such surgery.
C10_FirstSurgeryWithAnyHit ==
    (pc = "done" /\ query # << >>) =>
        LET surgeries == kb_data["surgeries"]
            hits      == { i \in DOMAIN surgeries : NameHit(i) \/ AnyCompHit(i) }
        IN  IF hits = { } THEN found.kind = "none"
            ELSE LET i == CHOOSE h \in hits : \A g \in hits : h <= g
                 IN  IF NameHit(i)
                     THEN IF Len(surgeries[i]["complications"]) = 0
                          THEN found.kind = "IndexError"
                          ELSE Returned(i, 1)
                     ELSE \E j \in DOMAIN surgeries[i]["complications"] :
                             /\ CompHit(i, j)
                             /\ \A l \in 1..(j - 1) : ~CompHit(i, l)
                             /\ Returned(i, j)

\* the query is in a complication name of the first surgery, not in its name,
\* and in the name of the second surgery: the first surgery is returned
C10_Witness ==
    /\ pc = "done"
    /\ query = << "b" >>
    /\ Len(kb_data["surgeries"]) = 2
    /\ ~NameHit(1) /\ AnyCompHit(1)
    /\ NameHit(2) /\ Len(kb_data["surgeries"][2]["complications"]) > 0
    /\ found.kind = "match"
    /\ found.surgery_name = << "C" >>

----------------------------------------------------------------------------
(* The protocol formatting block of streamlit_app:                            *)
(*   re.findall(r'Step \d+: (.*?)(?=Step \d+: |$)', protocol_text, re.DOTALL)  *)
(* and the loop over its matches.                                             *)

Digits == { "0", "1", "2", "3", "4", "5", "6", "7", "8", "9" }
Whitespace == { " ", "\n", "\t" }
StepWord == << "S", "t", "e", "p", " " >>

\* the end of the run of \d that starts at p (p itself when there is none)
RECURSIVE DigitsEnd(_, _)
DigitsEnd(text, p) ==
    IF p <= Len(text) /\ text[p] \in Digits THEN DigitsEnd(text, p + 1) ELSE p

\* `Step \d+: ` matched at p: the position after the match, 0 when it fails
MarkerEnd(text, p) ==
    IF p + 4 <= Len(text) /\ SubSeq(text, p, p + 4) = StepWord
    THEN LET d == DigitsEnd(text, p + 5)
         IN  IF /\ d > p + 5
                /\ d + 1 <= Len(text)
                /\ text[d] = ":"
                /\ text[d + 1] = " "
             THEN d + 2
             ELSE 0
    ELSE 0

\* `$` without re.MULTILINE: at the end, or before a newline that ends the string
AtDollar(text, k) ==
    \/ k = Len(text) + 1
    \/ k = Len(text) /\ text[k] = "\n"

\* `(.*?)(?=Step \d+: |$)` from k on: the first position where the lookahead holds
RECURSIVE LazyEnd(_, _)
LazyEnd(text, k) ==
    IF MarkerEnd(text, k) # 0 \/ AtDollar(text, k) THEN k ELSE LazyEnd(text, k + 1)

\* re.findall: the group of each match, left to right, matches not overlapping
RECURSIVE FindAll(_, _)
FindAll(text, p) ==
    IF p > Len(text) THEN << >>
    ELSE LET e == MarkerEnd(text, p)
         IN  IF e = 0 THEN FindAll(text, p + 1)
             ELSE LET k == LazyEnd(text, e)
                  IN  << SubSeq(text, e, k - 1) >> \o FindAll(text, k)

\* the same with a greedy group, `(.*)`: it runs to the last place where the
\* lookahead holds, which is the end of the string
FindAllGreedy(text, p) ==
    IF \E q \in p..Len(text) : MarkerEnd(text, q) # 0
    THEN LET q == CHOOSE q \in p..Len(text) :
                     MarkerEnd(text, q) # 0 /\ \A r \in p..(q - 1) : MarkerEnd(text, r) = 0
         IN  << SubSeq(text, MarkerEnd(text, q), Len(text)) >>
    ELSE << >>

\* str.strip()
RECURSIVE LStrip(_)
LStrip(s) == IF s # << >> /\ Head(s) \in Whitespace THEN LStrip(Tail(s)) ELSE s
RECURSIVE RStrip(_)
RStrip(s) ==
    IF s # << >> /\ s[Len(s)] \in Whitespace THEN RStrip(SubSeq(s, 1, Len(s) - 1)) ELSE s
Strip(s) == RStrip(LStrip(s))

\* str(n) of a natural number
RECURSIVE Decimal(_)
Decimal(n) ==
    LET digit == << "0", "1", "2", "3", "4", "5", "6", "7", "8", "9" >>[(n % 10) + 1]
    IN  IF n < 10 THEN << digit >> ELSE Decimal(n \div 10) \o << digit >>

\* f"{i + 1}. **{clean_step}**\n", i counted from 0
ListItem(i, step) ==
    Decimal(i + 1) \o << ".", " ", "*", "*" >> \o Strip(step) \o << "*", "*", "\n" >>

\* the loop `for i, step in enumerate(step_content_matches)`, from index i on
RECURSIVE JoinItems(_, _)
JoinItems(matches, i) ==
    IF i >= Len(matches) THEN << >>
    ELSE ListItem(i, matches[i + 1]) \o JoinItems(matches, i + 1)

FormatProtocolGreedy(text) ==
    LET step_content_matches == FindAllGreedy(text, 1)
    IN  IF step_content_matches # << >> THEN JoinItems(step_content_matches, 0) ELSE text

FormatProtocol(text) ==
    LET step_content_matches == FindAll(text, 1)
    IN  IF step_content_matches # << >> THEN JoinItems(step_content_matches, 0) ELSE text

----------------------------------------------------------------------------
(* The formatting block applied to a protocol text *)

Tokens ==
    { << "S", "t", "e", "p", " ", "5", ":", " " >>,
      << "S", "t", "e", "p", " ", "1", "2", ":", " " >>,
      StepWord, << "5" >>, << ":" >>, << "x" >>, << " " >>, << "\n" >> }

RECURSIVE Flatten(_)
Flatten(ts) == IF ts = << >> THEN << >> ELSE Head(ts) \o Flatten(Tail(ts))

ProtocolTexts == { Flatten(ts) : ts \in SeqsUpTo(Tokens, MaxTokens) }

InitFormat ==
    /\ protocol_text \in ProtocolTexts
    /\ formatted_protocol = << >>
    /\ kb_data = [ surgeries |-> << >> ]
    /\ documents = << >>
    /\ query = << >>
    /\ found = NoResult
    /\ pc = "ready"
    /\ AppIdle

Format ==
    /\ pc = "ready"
    /\ formatted_protocol' = FormatProtocol(protocol_text)
    /\ pc' = "done"
    /\ UNCHANGED << kb_data, documents, query, found, protocol_text >>
    /\ UNCHANGED appVars

NextFormat == Format

SpecFormat == InitFormat /\ [][NextFormat]_vars

\* a marker `Step <integer>: ` occupies positions p .. e - 1 of the text
IsMarker(text, p, e) ==
    /\ e - p >= 8
    /\ e - 1 <= Len(text)
    /\ SubSeq(text, p, p + 4) = StepWord
    /\ \A d \in (p + 5)..(e - 3) : text[d] \in Digits
    /\ text[e - 2] = ":"
    /\ text[e - 1] = " "

MarkerStarts(text) == { p \in 1..Len(text) : \E e \in 1..(Len(text) + 1) : IsMarker(text, p, e) }

\* the i-th marker of the text, in source order
NthMarker(text, i) ==
    CHOOSE p \in MarkerStarts(text) : Cardinality({ q \in MarkerStarts(text) : q <= p }) = i

\* the text between the i-th marker and the next marker or the end of the string
SpanAfter(text, i) ==
    LET p     == NthMarker(text, i)
        e     == CHOOSE e \in 1..(Len(text) + 1) : IsMarker(text, p, e)
        later == { q \in MarkerStarts(text) : q > p }
        stop  == IF later = { } THEN Len(text) + 1
                 ELSE CHOOSE q \in later : \A r \in later : q <= r
    IN  SubSeq(text, e, stop - 1)

\* a text without its leading and trailing whitespace
Trimmed(s) ==
    LET black == { i \in 1..Len(s) : s[i] \notin Whitespace }
    IN  IF black = { } THEN << >>
        ELSE SubSeq(s, CHOOSE a \in black : \A b \in black : a <= b,
                       CHOOSE a \in black : \A b \in black : a >= b)

\* the list of items numbered from..n, item i carrying the trimmed text after
\* the i-th marker
RECURSIVE ExpectedItems(_, _, _)
ExpectedItems(text, from, n) ==
    IF from > n THEN << >>
    ELSE Decimal(from) \o << ".", " ", "*", "*" >> \o Trimmed(SpanAfter(text, from))
             \o << "*", "*", "\n" >> \o ExpectedItems(text, from + 1, n)

\* C5: a protocol text with n >= 1 markers `Step <integer>: ` is formatted as
\* exactly n list items in source order, item i numbered i whatever the
\* integers of the markers, carrying the trimmed text between the i-th marker
\* and the next marker or the end of the string.
C5_ItemsPerMarker ==
    LET n == Cardinality(MarkerStarts(protocol_text))
    IN  (pc = "done" /\ n >= 1) =>
            formatted_protocol = ExpectedItems(protocol_text, 1, n)

\* "Step 12: x\nStep 5: x" formatted: two items, numbered 1 and 2
C5_Witness ==
    /\ pc = "done"
    /\ protocol_text = << "S", "t", "e", "p", " ", "1", "2", ":", " ", "x",
                          "S", "t", "e", "p", " ", "5", ":", " ", "\n" >>
    /\ formatted_protocol = << "1", ".", " ", "*", "*", "x", "*", "*", "\n",
                               "2", ".", " ", "*", "*", "*", "*", "\n" >>

----------------------------------------------------------------------------
(* The process: initialize_resources behind st.cache_resource, and the script *)
(* body that Streamlit runs from top to bottom once per interaction.          *)

Sessions == { 1, 2 }
EmptyKB == [ surgeries |-> << >> ]

\* the KnowledgeBase in the file at KB_PATH when the file is well-formed
FileKB ==
    [ surgeries |->
        << [ surgery_name |-> << "A", "b" >>, category |-> JStr(<< "G" >>),
             complications |-> << FullComplication(<< "a", "B" >>),
                                  FullComplication(<< "b", "c" >>) >> ] >> ]

Returns(value) == [ kind |-> "returned", value |-> value ]
Raises(exception) == [ kind |-> "raised", exception |-> exception ]

\* data_loader.load_json_knowledgebase: a missing file is reported with print()
\* and gives the empty KnowledgeBase; json.load raises on a malformed file
load_json_knowledgebase(file) ==
    CASE file = "missing"   -> Returns(EmptyKB)
      [] file = "malformed" -> Raises("JSONDecodeError")
      [] file = "valid"     -> Returns(FileKB)

\* vectorstore_manager.build_faiss_retriever.  HuggingFaceEmbeddings(...) loads
\* the embedding model and raises when it cannot be fetched (service "down");
\* FAISS.from_documents sizes the index with len(embeddings[0]) and so raises
\* IndexError on an empty list of documents.
build_faiss_retriever(docs, service) ==
    IF service = "down" THEN Raises("embedding model unavailable")
    ELSE IF docs = << >> THEN Raises("IndexError: list index out of range")
    ELSE Returns([ k |-> 3, docs |-> docs ])

NoSteps == [ load |-> 0, prepare |-> 0, build |-> 0, body |-> 1 ]

\* The body of initialize_resources, executed as the instance-th execution in
\* the process: what it returned, or the st.error it showed before st.stop(),
\* and the steps it executed.
InitializeBody(key, file, service, instance) ==
    IF key = << >>
    THEN [ outcome |-> "stopped", error |-> "GOOGLE_API_KEY not found", steps |-> NoSteps ]
    ELSE LET kb == load_json_knowledgebase(file)
         IN  IF kb.kind = "raised"
             THEN [ outcome |-> "stopped", error |-> kb.exception,
                    steps |-> [ NoSteps EXCEPT !.load = 1 ] ]
             ELSE LET docs      == prepare_documents(kb.value)
                      retriever == build_faiss_retriever(docs, service)
                      steps     == [ load |-> 1, prepare |-> 1, build |-> 1, body |-> 1 ]
                  IN  IF retriever.kind = "raised"
                      THEN [ outcome |-> "stopped", error |-> retriever.exception,
                             steps |-> steps ]
                      ELSE [ outcome |-> "returned", error |-> "",
                             kb_data |-> kb.value,
                             rag_chain |-> [ instance |-> instance,
                                             retriever |-> retriever.value ],
                             steps |-> steps ]

AddSteps(ex, steps) ==
    [ load    |-> ex.load + steps.load,
      prepare |-> ex.prepare + steps.prepare,
      build   |-> ex.build + steps.build,
      body    |-> ex.body + steps.body ]

\* initialize_resources without the cache: the body is executed on every call
InitializeUncached(c, ex, key, file, service) ==
    LET r == InitializeBody(key, file, service, ex.body + 1)
    IN  IF r.outcome = "returned"
        THEN [ outcome |-> "returned", error |-> "",
               cache |-> [ filled |-> TRUE, kb_data |-> r.kb_data, rag_chain |-> r.rag_chain ],
               executed |-> AddSteps(ex, r.steps) ]
        ELSE [ outcome |-> "stopped", error |-> r.error, cache |-> c,
               executed |-> AddSteps(ex, r.steps) ]

\* initialize_resources(API_KEY, KB_PATH) under @st.cache_resource: a stored
\* value is returned without executing the body; otherwise the body is executed
\* and its value is stored when it returns.  st.stop() leaves the body with an
\* exception, so nothing is stored then.
initialize_resources(c, ex, key, file, service) ==
    IF c.filled
    THEN [ outcome |-> "returned", error |-> "", cache |-> c, executed |-> ex ]
    ELSE LET r == InitializeBody(key, file, service, ex.body + 1)
         IN  IF r.outcome = "returned"
             THEN [ outcome |-> "returned", error |-> "",
                    cache |-> [ filled |-> TRUE, kb_data |-> r.kb_data,
                                rag_chain |-> r.rag_chain ],
                    executed |-> AddSteps(ex, r.steps) ]
             ELSE [ outcome |-> "stopped", error |-> r.error, cache |-> c,
                    executed |-> AddSteps(ex, r.steps) ]

\* rag_chain.invoke({"question": query}): the answer, or the exception of the
\* retrieval, the prompt or the model call
Invoke(rag_chain, chain) ==
    IF chain = "ok" THEN Returns(<< "answer of", rag_chain.instance >>) ELSE Raises(chain)

\* ai_engine.generate_response without its try/except
GenerateResponseUncaught(rag_chain, chain) == Invoke(rag_chain, chain)

\* ai_engine.generate_response
generate_response(rag_chain, chain) ==
    LET response == Invoke(rag_chain, chain)
    IN  IF response.kind = "raised"
        THEN Returns(<< "An error occurred during generation: ", response.exception >>)
        ELSE response

NoSession == [ set |-> FALSE, kb_data |-> EmptyKB ]

InitApp ==
    /\ api_key \in { << >>, << "k" >> }
    /\ kb_file \in { "malformed", "missing", "valid" }
    /\ cache = NoCache
    /\ session_kb = [ s \in Sessions |-> NoSession ]
    /\ executed = [ load |-> 0, prepare |-> 0, build |-> 0, body |-> 0 ]
    /\ runs = 0
    /\ last = [ kind |-> "none" ]
    /\ PureIdle

\* lines 105-115 of the script: the value of initialize_resources, and
\* st.session_state.kb_data set on the session's first successful run
SessionAfter(s, init) ==
    IF init.outcome = "returned" /\ ~session_kb[s].set
    THEN [ session_kb EXCEPT ![s] = [ set |-> TRUE, kb_data |-> init.cache.kb_data ] ]
    ELSE session_kb

\* what a script run that st.stop() ended at the initialization shows
StartupError(s, service, init) ==
    [ kind |-> "startup error", session |-> s, service |-> service, error |-> init.error ]

\* A script run of session s with no input: the page is opened or redrawn.
Open(s, service) ==
    LET init == initialize_resources(cache, executed, api_key, kb_file, service)
    IN  /\ runs < MaxRuns
        /\ runs' = runs + 1
        /\ cache' = init.cache
        /\ executed' = init.executed
        /\ session_kb' = SessionAfter(s, init)
        /\ last' = IF init.outcome = "stopped" THEN StartupError(s, service, init)
                   ELSE [ kind |-> "page", session |-> s, service |-> service,
                          rag_chain |-> init.cache.rag_chain ]
        /\ UNCHANGED << api_key, kb_file >>
        /\ UNCHANGED pureVars

\* A script run of session s with a text in the search box of the page.
Browse(s, service, q) ==
    LET init == initialize_resources(cache, executed, api_key, kb_file, service)
    IN  /\ runs < MaxRuns
        /\ session_kb[s].set
        /\ q # << >>
        /\ runs' = runs + 1
        /\ cache' = init.cache
        /\ executed' = init.executed
        /\ session_kb' = SessionAfter(s, init)
        /\ last' = IF init.outcome = "stopped" THEN StartupError(s, service, init)
                   ELSE [ kind |-> "browse", session |-> s, service |-> service,
                          rag_chain |-> init.cache.rag_chain,
                          found |-> search_knowledge_base(q, session_kb'[s].kb_data) ]
        /\ UNCHANGED << api_key, kb_file >>
        /\ UNCHANGED pureVars

\* A script run of session s with a question typed and the button pressed; chain
\* is what the chain does when invoked.
Generate(s, service, chain) ==
    LET init == initialize_resources(cache, executed, api_key, kb_file, service)
    IN  /\ runs < MaxRuns
        /\ session_kb[s].set
        /\ runs' = runs + 1
        /\ cache' = init.cache
        /\ executed' = init.executed
        /\ session_kb' = SessionAfter(s, init)
        /\ last' = IF init.outcome = "stopped" THEN StartupError(s, service, init)
                   ELSE [ kind |-> "generate", session |-> s, service |-> service,
                          rag_chain |-> init.cache.rag_chain,
                          chain |-> chain,
                          response |-> generate_response(init.cache.rag_chain, chain) ]
        /\ UNCHANGED << api_key, kb_file >>
        /\ UNCHANGED pureVars

Services == { "up", "down" }
ChainOutcomes == { "ok", "retrieval failed", "model call failed" }

Next ==
    \/ \E s \in Sessions, service \in Services : Open(s, service)
    \/ \E s \in Sessions, service \in Services, q \in Queries : Browse(s, service, q)
    \/ \E s \in Sessions, service \in Services, chain \in ChainOutcomes :
           Generate(s, service, chain)

Spec == InitApp /\ [][Next]_vars

\* initialization has been attempted and has never succeeded
InitFailed == executed.body > 0 /\ ~cache.filled

\* C2: once initialization has failed, the process stays uninitialized, no
\* later script run executes an initialization step again, and every later
\* script run shows the same startup error.
C2_FailedInitNeverRetried ==
    [][ InitFailed =>
          /\ ~cache'.filled
          /\ executed'.load = executed.load
          /\ executed'.prepare = executed.prepare
          /\ executed'.build = executed.build
          /\ (runs' # runs =>
                 last'.kind = "startup error" /\ last'.error = last.error) ]_vars

\* C6: a failure of the chain inside generate_response comes back as the string
\* "An error occurred during generation: <e>" shown as the answer, and the run
\* leaves the cache entry, the executed steps and every session's KnowledgeBase
\* as they were.
C6_GenerationFailureContained ==
    [][ (runs' # runs /\ last'.kind = "generate" /\ last'.chain # "ok") =>
          /\ last'.response =
                 Returns(<< "An error occurred during generation: ", last'.chain >>)
          /\ cache' = cache
          /\ executed' = executed
          /\ session_kb' = session_kb ]_vars

\* a generation has failed in a process whose cache is filled
C6_Witness ==
    /\ last.kind = "generate"
    /\ last.chain = "model call failed"
    /\ last.response.kind = "returned"
    /\ cache.filled

\* C8: once initialization has succeeded, every later script run gets the
\* cached (KnowledgeBase, chain) pair, the same one each time, and no
\* initialization step is executed again.
C8_CachedInstanceReused ==
    [][ cache.filled =>
          /\ cache' = cache
          /\ executed' = executed
          /\ (runs' # runs =>
                 /\ last'.kind \in { "page", "browse", "generate" }
                 /\ last'.rag_chain = cache.rag_chain
                 /\ session_kb'[last'.session].kb_data = cache.kb_data) ]_vars

\* three script runs after the one that filled the cache, in both sessions
C8_Witness ==
    /\ cache.filled
    /\ runs = MaxRuns
    /\ executed.body = 1
    /\ executed.build = 1
    /\ \A s \in Sessions : session_kb[s].set
    /\ last.kind = "generate"

\* C9: with no file at the knowledge-base path the loader returns the empty
\* KnowledgeBase without raising, and startup goes on with it: a script run
\* (credential set, embedding model available) shows the page, not a startup
\* error, and the cache holds the empty KnowledgeBase.
C9_MissingFileNotFatal ==
    /\ load_json_knowledgebase("missing") = Returns(EmptyKB)
    /\ (kb_file = "missing" /\ api_key # << >> /\ runs > 0 /\ last.service = "up") =>
           /\ last.kind # "startup error"
           /\ cache.filled
           /\ cache.kb_data = EmptyKB

====
